---- MODULE Spec2Model ----
\* Forecasting engine of MedicalAnalysisSystem (src/main2+gemini.py):
\* build_forecast and the four backends forecast_sarima, forecast_xgboost,
\* forecast_ml and forecast_linear_regression, with the widget variables they
\* read and the forecast_results dictionary they write.
\*
\* Numbers are integers: a count is an integer, a prediction of a fitted
\* library model is an integer, and a mean is kept as the pair (sum, n).
\* The fitted library models (statsmodels ARIMA, sklearn, xgboost) are
\* deterministic functions of their training data (the code seeds them);
\* they are represented by small deterministic stand-ins whose raw output can
\* be negative, so that the clamping done by the code is observable.
EXTENDS Integers, Sequences, FiniteSets, TLC

\* ---------------------------------------------------------------------
\* Bounds of the model
\* ---------------------------------------------------------------------
\* how many build_forecast requests may be suspended in root.update() at once
MaxNesting == 1
\* deepest nesting of forecast_sarima calls before Python raises RecursionError
RecursionLimit == 3
\* how far above the Spinbox maximum a typed horizon may be
ExtraHorizon == 1
\* how many months beyond the SARIMA minimum the longest history has
ExtraMonths == 1
\* the largest AIC a candidate of the order search has before the tilt
MaxAic == 2
\* how many years after the first the last month of a history may lie in
ExtraYears == 1

\* ---------------------------------------------------------------------
\* Program constants
\* ---------------------------------------------------------------------
SpinboxFrom == 1
SpinboxTo == 24
DefaultPeriod == 6
SarimaMinMonths == 24
\* the XGBoost threshold set one month too low
XgbMinMonthsOneLess == 12 - 1
XgbMinMonths == 12
MlMinMonths == 12
LinearMinMonths == 6
MinRowsAfterDropna == 8

Models == {"SARIMA", "Linear Regression", "Random Forest", "XGBoost"}
\* the combobox entry that selects every region
AllRegions == "Vse"

\* ---------------------------------------------------------------------
\* Calendar (pandas Timestamp / DateOffset / date_range)
\* ---------------------------------------------------------------------
NaT == [year |-> 0, month |-> 0, day |-> 0]

IsLeap(y) == (y % 4 = 0 /\ y % 100 # 0) \/ (y % 400 = 0)

DaysInMonth(y, m) ==
    IF m = 2 THEN (IF IsLeap(y) THEN 29 ELSE 28)
    ELSE IF m \in {4, 6, 9, 11} THEN 30 ELSE 31

Timestamp(y, m, d) == [year |-> y, month |-> m, day |-> d]

\* date + pd.DateOffset(months=k): the month moves, the day is clipped
DateOffsetMonths(date, k) ==
    LET total == date.year * 12 + (date.month - 1) + k
        y == total \div 12
        m == (total % 12) + 1
        dim == DaysInMonth(y, m)
    IN  Timestamp(y, m, IF date.day > dim THEN dim ELSE date.day)

MonthEnd(date) == Timestamp(date.year, date.month, DaysInMonth(date.year, date.month))
MonthStart(date) == Timestamp(date.year, date.month, 1)

\* pd.date_range(start=start, periods=periods, freq='M'): the month ends on or
\* after start, one per month (periods >= 0)
DateRangeM(start, periods) ==
    [i \in 1..periods |-> MonthEnd(DateOffsetMonths(MonthStart(start), i - 1))]

\* monthly_data[year] * 12 + monthly_data[month], the column 'Period'
Period(date) == date.year * 12 + date.month

\* ---------------------------------------------------------------------
\* Event table (self.current_data)
\* ---------------------------------------------------------------------
\* date_dtype is the dtype of the date column: "object" as read from the
\* file (text), "datetime64" once parsed dates were assigned to the column
NoData == [loaded |-> FALSE, has_region |-> FALSE, date_dtype |-> "object", rows |-> <<>>]

LongHistory == 24 + ExtraMonths
HistoryLengths == {5, 6, 11, 12, 23, 24, LongHistory}

\* count of the k-th month (0-based) of a generated table
CountAt(cfg, k) ==
    IF k + 1 = cfg.zeroAt THEN 0
    ELSE IF cfg.desc THEN 2 * (cfg.n - k) ELSE 1 + (k % 3)

RECURSIVE MakeRows(_, _)
MakeRows(cfg, k) ==
    IF k >= cfg.n THEN <<>>
    ELSE LET d == DateOffsetMonths(Timestamp(cfg.year, cfg.month, 15), k)
             row == [date |-> IF k + 1 = cfg.badAt THEN NaT ELSE d,
                     region |-> IF k % 2 = 0 THEN "Almaty" ELSE "Astana",
                     count |-> CountAt(cfg, k)]
         IN  (IF k + 1 = cfg.gapAt THEN <<>> ELSE <<row>>) \o MakeRows(cfg, k + 1)

Cfg(n, y, m, desc, zeroAt, gapAt, badAt, reg) ==
    [n |-> n, year |-> y, month |-> m, desc |-> desc, zeroAt |-> zeroAt,
     gapAt |-> gapAt, badAt |-> badAt, has_region |-> reg]

\* the tables a session is started with
DataConfigs ==
    {Cfg(n, 2022, 12, FALSE, 0, 0, 0, FALSE) : n \in HistoryLengths}
    \cup {Cfg(LongHistory, 2022, 12, TRUE, 0, 0, 0, FALSE),
          Cfg(LongHistory, 2022, 12, FALSE, LongHistory, 0, 0, FALSE),
          Cfg(LongHistory, 2022, 12, FALSE, 0, 5, 0, FALSE),
          Cfg(13, 2023, 2, TRUE, 4, 0, 0, FALSE),
          Cfg(13, 2023, 1, FALSE, 0, 0, 3, FALSE),
          Cfg(LongHistory, 2022, 12, FALSE, 0, 0, 0, TRUE)}

DataOf(cfg) ==
    [loaded |-> TRUE, has_region |-> cfg.has_region, date_dtype |-> "object",
     rows |-> MakeRows(cfg, 0)]

\* ---------------------------------------------------------------------
\* Python helpers
\* ---------------------------------------------------------------------
Max2(a, b) == IF a >= b THEN a ELSE b
Min2(a, b) == IF a <= b THEN a ELSE b

\* seq[a:b] with Python's treatment of negative and out-of-range indices
PySlice(seq, a, b) ==
    LET n == Len(seq)
        lo == IF a < 0 THEN Max2(n + a, 0) ELSE Min2(a, n)
        hi == IF b < 0 THEN Max2(n + b, 0) ELSE Min2(b, n)
    IN  IF hi <= lo THEN <<>> ELSE SubSeq(seq, lo + 1, hi)

\* seq[-k:] for k >= 1
Tail_(seq, k) == SubSeq(seq, Max2(Len(seq) - k, 0) + 1, Len(seq))

RECURSIVE SumSeq(_)
SumSeq(seq) == IF seq = <<>> THEN 0 ELSE Head(seq) + SumSeq(Tail(seq))

\* np.mean / Series.mean of a non-empty sequence, kept exact as (sum, n)
Mean(seq) == [sum |-> SumSeq(seq), n |-> Len(seq)]
\* the integer part of a mean, used where a stand-in model needs one number
MeanInt(m) == m.sum \div m.n

\* the forecast value left as predicted, without the clamp
ClampOmitted(x) == x

\* max(0, x) and np.maximum(x, 0)
ClampNonNegative(x) == IF x > 0 THEN x ELSE 0

\* ---------------------------------------------------------------------
\* SeriesAggregator: filter, date coercion, monthly aggregation
\* ---------------------------------------------------------------------
\* region_filter = getattr(self, 'forecast_region_var', None) is the
\* tkinter StringVar itself, never its .get() value.  Comparing a str with a
\* Variable falls back to identity: Variable.__eq__ returns NotImplemented for
\* a non-Variable operand, so text == var is False and var != text is True.
StrEqualsStringVar(text, var_value) == FALSE

\* region_filter and region_filter != 'Vse' and 'Region' in data.columns
\* (a Variable is truthy)
RegionFilterApplies(data, var_value) ==
    ~StrEqualsStringVar(AllRegions, var_value) /\ data.has_region

\* data[data[region] == region_filter] when the guard of the if holds
FilterByRegion(data, var_value) ==
    LET Keep(r) == StrEqualsStringVar(r.region, var_value)
    IN  IF RegionFilterApplies(data, var_value)
        THEN SelectSeq(data.rows, Keep)
        ELSE data.rows

\* the frame the local name `data` is bound to when the copy is left out:
\* the frame of its owner
DataFrameAliased(owner) == owner

\* data = self.current_data.copy(): `data` is bound to a new frame
DataFrameCopy(owner) == "local"

\* data[date] = pd.to_datetime(data[date], ...) assigns the column of the
\* frame `data` is bound to; the result is the table self.current_data holds
\* afterwards
AssignDates(table, frame) ==
    IF frame = "self" THEN [table EXCEPT !.date_dtype = "datetime64"] ELSE table

\* self.current_data as a backend leaves it: `data` is bound to the copy,
\* rebound to the filtered frame where the backend filters and the filter
\* applies, and then has its date column assigned
TableAfterBackend(table, var_value, filters) ==
    LET copied == DataFrameCopy("self")
        frame == IF filters /\ RegionFilterApplies(table, var_value) THEN "local"
                 ELSE copied
    IN  IF table.loaded THEN AssignDates(table, frame) ELSE table

\* pd.to_datetime(..., errors='coerce') followed by dropna(subset=[date])
DropNaT(rows) ==
    LET Valid(r) == r.date # NaT
    IN  SelectSeq(rows, Valid)

HasNaT(rows) == \E i \in DOMAIN rows : rows[i].date = NaT

\* the sums of the monthly bins lo, lo + 1, ...: each row from the i-th on
\* is added to the bin of its month
RECURSIVE SumCounts(_, _, _, _)
SumCounts(rows, i, lo, sums) ==
    IF i > Len(rows) THEN sums
    ELSE SumCounts(rows, i + 1, lo,
                   [sums EXCEPT ![Period(rows[i].date) - lo + 1] = @ + rows[i].count])

PeriodsOf(rows) == {Period(rows[i].date) : i \in DOMAIN rows}
MinOf(S) == CHOOSE x \in S : \A y \in S : x <= y
MaxOf(S) == CHOOSE x \in S : \A y \in S : x >= y

\* the earliest and the latest month with a row (rows is not empty)
RECURSIVE FirstPeriodFrom(_, _, _)
FirstPeriodFrom(rows, i, lo) ==
    IF i > Len(rows) THEN lo
    ELSE FirstPeriodFrom(rows, i + 1, Min2(lo, Period(rows[i].date)))

RECURSIVE LastPeriodFrom(_, _, _)
LastPeriodFrom(rows, i, hi) ==
    IF i > Len(rows) THEN hi
    ELSE LastPeriodFrom(rows, i + 1, Max2(hi, Period(rows[i].date)))

FirstPeriod(rows) == FirstPeriodFrom(rows, 2, Period(rows[1].date))
LastPeriod(rows) == LastPeriodFrom(rows, 2, Period(rows[1].date))

PeriodYear(p) == (p - 1) \div 12
PeriodMonth(p) == ((p - 1) % 12) + 1

\* data.resample('MS', on=date)[count].sum(): every calendar month from the
\* first to the last month with a row, labelled by its first day; a month
\* without rows sums to 0
ResampleMS(rows) ==
    IF rows = <<>> THEN <<>>
    ELSE LET lo == FirstPeriod(rows)
             hi == LastPeriod(rows)
             sums == SumCounts(rows, 1, lo, [k \in 1..(hi - lo + 1) |-> 0])
         IN  [k \in 1..(hi - lo + 1) |->
                [date |-> Timestamp(PeriodYear(lo + k - 1), PeriodMonth(lo + k - 1), 1),
                 value |-> sums[k]]]

\* data.groupby(pd.Grouper(key=date, freq='M'))[count].sum(): the same bins,
\* labelled by their last day
GroupByMonthEnd(rows) ==
    LET ms == ResampleMS(rows)
    IN  [k \in DOMAIN ms |-> [date |-> MonthEnd(ms[k].date), value |-> ms[k].value]]

\* data.groupby([year, month])[count].sum().reset_index(): only the months
\* that have a row, in (year, month) order
GroupByYearMonth(rows) ==
    LET ms == ResampleMS(rows)
        Present(e) == \E i \in DOMAIN rows : Period(rows[i].date) = Period(e.date)
    IN  SelectSeq(ms, Present)

\* the series left as aggregated, zero months included
PositiveMonthsKept(series) == series

\* monthly_data[monthly_data > 0]
PositiveMonths(series) ==
    LET Pos(e) == e.value > 0
    IN  SelectSeq(series, Pos)

\* (monthly_data > 0).sum()
PositiveCount(series) == Len(PositiveMonths(series))

Values(series) == [k \in DOMAIN series |-> series[k].value]

\* ---------------------------------------------------------------------
\* Results of one backend call
\* ---------------------------------------------------------------------
\* the dictionary assigned to self.forecast_results
ForecastDict(dates, values, model, details, keys) ==
    [dates |-> dates, values |-> values, model |-> model,
     method_details |-> details, keys |-> keys]

\* best_aic = float('inf'); best_model = None; best_params = None
NothingRetained == [found |-> FALSE, best_aic |-> 0, best_params |-> <<>>]

\* what one call of a backend did: how it ended, the dictionary it stored
\* (a sequence of length 0 or 1), the horizon it read, the fits it performed
\* what became of the hold-out evaluation ("none": not reached), the
\* ARIMA orders its search attempted and what the search retained
Ended(how, fits) ==
    [how |-> how, stored |-> <<>>, horizon |-> 0, fits |-> fits, holdout |-> "none",
     orders |-> <<>>, best |-> NothingRetained]
Stored(dict, periods, fits) ==
    [how |-> "stored", stored |-> <<dict>>, horizon |-> periods, fits |-> fits,
     holdout |-> "none", orders |-> <<>>, best |-> NothingRetained]

\* the evaluation on the test rows (predict, mean_absolute_error, r2_score)
\* stands between fit and the forecast loop, inside the try block of the
\* backend: when it raises the call ends in the except clause
HoldOutRaised(fits) == [Ended("error", fits) EXCEPT !.holdout = "raised"]
HoldOutDone(result) == [result EXCEPT !.holdout = "done"]

CeilDiv(a, b) == (a + b - 1) \div b

\* train_test_split(X, y, test_size=min(frac_num/frac_den, 3/len(X)),
\* shuffle=False): n_test = ceil(test_size * n), the rest is the training
\* prefix
TestSize(n, frac_num, frac_den) == Min2(CeilDiv(n * frac_num, frac_den), 3)
\* the training rows of a split that does not keep the order: the rows left
\* after the first n_test were taken
TrainPrefixShuffled(seq, n_test) == SubSeq(seq, n_test + 1, Len(seq))

TrainPrefix(seq, n_test) == SubSeq(seq, 1, Len(seq) - n_test)
TestSuffix(seq, n_test) == SubSeq(seq, Len(seq) - n_test + 1, Len(seq))

\* ---------------------------------------------------------------------
\* Random streams of the estimators
\* ---------------------------------------------------------------------
\* a stream of pseudo-random numbers: the seed it started from, how many
\* numbers were drawn, and whether it is the global stream of numpy
RandomSeed == 42

\* the global stream of numpy as the process starts
NumpyGlobalState == [seed |-> 0, drawn |-> 0, is_global |-> TRUE]

\* the stream of an estimator built without random_state: the global one
RandomStateGlobal(seed, global_state) == global_state

\* the stream of an estimator built with random_state=seed: a stream of its
\* own that starts from the seed at every construction
RandomState(seed, global_state) == [seed |-> seed, drawn |-> 0, is_global |-> FALSE]

\* stand-in for what the numbers drawn during fit contribute to a prediction
Draw(stream) == (stream.seed + stream.drawn) % 3

\* the global stream after a fit that drew from `stream`
GlobalAfterFit(global_state, stream) ==
    IF stream.is_global THEN [global_state EXCEPT !.drawn = (@ + 1) % 3]
    ELSE global_state

\* ---------------------------------------------------------------------
\* forecast_xgboost
\* ---------------------------------------------------------------------
\* the feature columns added to the monthly frame, row k (1-based); a lag
\* that reaches before the first row is NaN, shown here as -1
XgbFeatureRow(ms, k) ==
    [period |-> Period(ms[k].date),
     month |-> ms[k].date.month,
     year |-> ms[k].date.year,
     trend |-> k - 1,
     lag_1 |-> IF k > 1 THEN ms[k - 1].value ELSE -1,
     lag_2 |-> IF k > 2 THEN ms[k - 2].value ELSE -1,
     lag_3 |-> IF k > 3 THEN ms[k - 3].value ELSE -1,
     ma_3 |-> Mean(Values(SubSeq(ms, Max2(k - 2, 1), k))),
     ma_6 |-> Mean(Values(SubSeq(ms, Max2(k - 5, 1), k))),
     target |-> ms[k].value]

\* monthly_data.dropna(): the rows whose three lags are all defined
XgbFeatureRows(ms) ==
    LET all == [k \in DOMAIN ms |-> XgbFeatureRow(ms, k)]
        Complete(r) == r.lag_1 >= 0 /\ r.lag_2 >= 0 /\ r.lag_3 >= 0
    IN  SelectSeq(all, Complete)

Targets(md) == [k \in DOMAIN md |-> md[k].target]

\* stand-in for XGBRegressor(random_state=42).fit(X_train, y_train): the
\* model remembers the last step of the training targets and what its
\* random stream gave
XgbFit(train, stream) ==
    LET y == Targets(train)
    IN  [step |-> IF Len(y) > 1 THEN y[Len(y)] - y[Len(y) - 1] ELSE 0,
         noise |-> Draw(stream)]

\* stand-in for xgb_model.predict(X_new)[0]
XgbPredict(model, x) == x.lag_1 + model.step + model.noise

\* the decoding without the correction of a remainder of 0
DecodePeriodNoWrap(new_period) ==
    [year |-> new_period \div 12, month |-> new_period % 12]

\* new_year = new_period // 12; new_month = new_period % 12; a remainder of
\* 0 is month 12 of the year before
DecodePeriod(new_period) ==
    LET r == new_period % 12
    IN  IF r = 0 THEN [year |-> (new_period \div 12) - 1, month |-> 12]
        ELSE [year |-> new_period \div 12, month |-> r]

\* the feature vector built for forecast step i (0-based) in the loop
XgbFutureRow(md, fv, i) ==
    LET L == Len(md)
        last_period == md[L].period
        new_period == last_period + i + 1
        decoded == DecodePeriod(new_period)
        new_month == decoded.month
        new_year == decoded.year
        recent == Targets(Tail_(md, 3)) \o SubSeq(fv, 1, i)
    IN  [period |-> new_period,
         month |-> new_month,
         year |-> new_year,
         trend |-> L + i,
         lag_1 |-> IF i = 0 THEN md[L].target ELSE fv[i],
         lag_2 |-> IF i = 0 THEN (IF L > 1 THEN md[L - 1].target ELSE md[L].target)
                   ELSE IF i > 1 THEN fv[i - 1] ELSE md[L].target,
         lag_3 |-> IF i = 0 THEN (IF L > 2 THEN md[L - 2].target ELSE md[L].target)
                   ELSE IF i > 2 THEN fv[i - 2] ELSE md[L].target,
         ma_3 |-> IF i = 0 THEN (IF L > 2 THEN Mean(Targets(Tail_(md, 3)))
                                 ELSE Mean(<<md[L].target>>))
                  ELSE Mean(Tail_(recent, 3)),
         ma_6 |-> IF i = 0 THEN (IF L > 5 THEN Mean(Targets(Tail_(md, 6)))
                                 ELSE Mean(<<md[L].target>>))
                  ELSE Mean(Tail_(recent, 6))]

\* for i in range(periods): one value and one date are appended per step
RECURSIVE XgbLoop(_, _, _, _, _, _)
XgbLoop(md, model, periods, i, fv, fd) ==
    IF i >= periods THEN [values |-> fv, dates |-> fd]
    ELSE LET x == XgbFutureRow(md, fv, i)
             forecast_value == ClampNonNegative(XgbPredict(model, x))
             forecast_date == Timestamp(x.year, x.month, 1)
         IN  XgbLoop(md, model, periods, i + 1,
                     Append(fv, forecast_value), Append(fd, forecast_date))

XgbKeys == {"dates", "values", "model", "mae", "r2", "feature_importance"}

\* the data preparation of forecast_xgboost: the rows kept, the monthly
\* series, the feature rows after dropna and their split
XgbPrepare(data, var_value) ==
    LET rows == DropNaT(FilterByRegion(data, var_value))
        ms == ResampleMS(rows)
        md == XgbFeatureRows(ms)
        n_test == TestSize(Len(md), 1, 5)
    IN  [rows |-> rows, series |-> ms, features |-> md,
         train |-> TrainPrefix(md, n_test), test |-> TestSuffix(md, n_test)]

\* the whole of forecast_xgboost; fit_raises says whether the library raises
\* in fit/predict, metrics_raise whether the hold-out evaluation raises, rng
\* is the global random stream
ForecastXgboostCall(data, var_value, periods, xgb_available, fit_raises, metrics_raise, rng) ==
    IF ~xgb_available THEN Ended("unavailable", <<>>)
    ELSE IF ~data.loaded THEN Ended("error", <<>>)
    ELSE LET prep == XgbPrepare(data, var_value)
             rows == prep.rows
             ms == prep.series
             md == prep.features
         IN  IF Len(rows) = 0 THEN Ended("no_rows", <<>>)
             ELSE IF PositiveCount(ms) < XgbMinMonths THEN Ended("insufficient", <<>>)
             ELSE IF Len(md) < MinRowsAfterDropna THEN Ended("insufficient", <<>>)
             ELSE IF fit_raises THEN Ended("error", <<"XGBoost">>)
             ELSE IF metrics_raise THEN HoldOutRaised(<<"XGBoost">>)
             ELSE LET model == XgbFit(prep.train, RandomState(RandomSeed, rng))
                      f == XgbLoop(md, model, periods, 0, <<>>, <<>>)
                  IN  HoldOutDone(Stored(ForecastDict(f.dates, f.values, "XGBoost", "", XgbKeys),
                                         periods, <<"XGBoost">>))

\* ---------------------------------------------------------------------
\* forecast_ml (Random Forest)
\* ---------------------------------------------------------------------
MlFeatureRow(ms, k) ==
    [period |-> Period(ms[k].date),
     month |-> ms[k].date.month,
     year |-> ms[k].date.year,
     lag_1 |-> IF k > 1 THEN ms[k - 1].value ELSE -1,
     lag_2 |-> IF k > 2 THEN ms[k - 2].value ELSE -1,
     moving_avg |-> Mean(Values(SubSeq(ms, Max2(k - 2, 1), k))),
     target |-> ms[k].value]

MlFeatureRows(ms) ==
    LET all == [k \in DOMAIN ms |-> MlFeatureRow(ms, k)]
        Complete(r) == r.lag_1 >= 0 /\ r.lag_2 >= 0
    IN  SelectSeq(all, Complete)

\* stand-in for RandomForestRegressor(random_state=42).fit(X_train, y_train):
\* a forest predicts averages of training targets, moved by what its random
\* stream gave
MlFit(train, stream) ==
    [mean |-> MeanInt(Mean(Targets(train))), noise |-> Draw(stream)]

\* stand-in for model.predict(X_new)[0]
MlPredict(model, x) == ((model.mean + x.lag_1) \div 2) + model.noise

\* the correction made once, by an if in place of the while
RollOverOnce(new_year, new_month) ==
    IF new_month > 12 THEN [year |-> new_year + 1, month |-> new_month - 12]
    ELSE [year |-> new_year, month |-> new_month]

\* while new_month > 12: new_month -= 12; new_year += 1
RECURSIVE RollOver(_, _)
RollOver(new_year, new_month) ==
    IF new_month > 12 THEN RollOver(new_year + 1, new_month - 12)
    ELSE [year |-> new_year, month |-> new_month]

\* the feature vector built for forecast step i (0-based) in the loop
MlFutureRow(md, fv, i) ==
    LET L == Len(md)
        last_year == md[L].year
        last_month == md[L].month
        months_to_add == i + 1
        rolled == RollOver(last_year, last_month + months_to_add)
    IN  [period |-> md[L].period + i + 1,
         month |-> rolled.month,
         year |-> rolled.year,
         lag_1 |-> IF i = 0 THEN md[L].target ELSE fv[i],
         lag_2 |-> IF i = 0 THEN (IF L > 1 THEN md[L - 1].target ELSE md[L].target)
                   ELSE IF i = 1 THEN md[L].target ELSE fv[i - 1],
         moving_avg |->
            IF i = 0 THEN (IF L > 2 THEN Mean(Targets(Tail_(md, 3))) ELSE Mean(<<md[L].target>>))
            ELSE IF i = 1 THEN Mean(<<md[L - 1].target, md[L].target, fv[1]>>)
            ELSE Mean(PySlice(fv, i - 3, i))]

RECURSIVE MlLoop(_, _, _, _, _, _)
MlLoop(md, model, periods, i, fv, fd) ==
    IF i >= periods THEN [values |-> fv, dates |-> fd]
    ELSE LET x == MlFutureRow(md, fv, i)
             forecast_value == ClampNonNegative(MlPredict(model, x))
             \* 1 <= new_month <= 12 and 1900 <= new_year <= 2100, else the
             \* DateOffset fallback from the last known date
             forecast_date ==
                IF x.month >= 1 /\ x.month <= 12 /\ x.year >= 1900 /\ x.year <= 2100
                THEN Timestamp(x.year, x.month, 1)
                ELSE DateOffsetMonths(Timestamp(md[Len(md)].year, md[Len(md)].month, 1), i + 1)
         IN  MlLoop(md, model, periods, i + 1,
                    Append(fv, forecast_value), Append(fd, forecast_date))

\* the data preparation of forecast_ml: the rows kept, the monthly series,
\* the feature rows after dropna and their split
MlPrepare(data) ==
    LET rows == DropNaT(data.rows)
        ms == GroupByYearMonth(rows)
        md == MlFeatureRows(ms)
        n_test == TestSize(Len(md), 3, 10)
    IN  [rows |-> rows, series |-> ms, features |-> md,
         train |-> TrainPrefix(md, n_test), test |-> TestSuffix(md, n_test)]

\* the whole of forecast_ml (it applies no region filter)
ForecastMlCall(data, periods, sklearn_available, fit_raises, metrics_raise, rng) ==
    IF ~sklearn_available THEN Ended("unavailable", <<>>)
    ELSE IF ~data.loaded THEN Ended("error", <<>>)
    ELSE LET prep == MlPrepare(data)
             rows == prep.rows
             ms == prep.series
             md == prep.features
         IN  IF Len(rows) = 0 THEN Ended("no_rows", <<>>)
             ELSE IF Len(ms) < MlMinMonths THEN Ended("insufficient", <<>>)
             ELSE IF Len(md) < MinRowsAfterDropna THEN Ended("insufficient", <<>>)
             ELSE IF fit_raises THEN Ended("error", <<"Random Forest">>)
             ELSE IF metrics_raise THEN HoldOutRaised(<<"Random Forest">>)
             ELSE LET model == MlFit(prep.train, RandomState(RandomSeed, rng))
                      f == MlLoop(md, model, periods, 0, <<>>, <<>>)
                  IN  HoldOutDone(Stored(ForecastDict(f.dates, f.values, "Random Forest", "",
                                                     XgbKeys),
                                         periods, <<"Random Forest">>))

\* ---------------------------------------------------------------------
\* Least-squares line (np.polyfit(X, y, 1) on X = 0..n-1), exact as a
\* fraction and evaluated to the integer below the real value
\* ---------------------------------------------------------------------
RECURSIVE SumXY(_, _)
SumXY(y, k) == IF k > Len(y) THEN 0 ELSE (k - 1) * y[k] + SumXY(y, k + 1)

LineFit(y) ==
    LET n == Len(y)
        Sx == (n * (n - 1)) \div 2
        Sxx == ((n - 1) * n * (2 * n - 1)) \div 6
        Sy == SumSeq(y)
        den == n * Sxx - Sx * Sx
        slope_num == n * SumXY(y, 1) - Sx * Sy
    IN  [n |-> n, den |-> den, slope_num |-> slope_num,
         icpt_num |-> Sy * den - slope_num * Sx]

\* trend_coef[0] * t + trend_coef[1]
LineAt(fit, t) ==
    IF fit.den = 0 THEN fit.icpt_num
    ELSE (fit.slope_num * t * fit.n + fit.icpt_num) \div (fit.n * fit.den)

\* ---------------------------------------------------------------------
\* forecast_linear_regression (the definition in force: the second one in
\* the class body, which replaces the first)
\* ---------------------------------------------------------------------
\* stand-in for LinearRegression().fit(PolynomialFeatures(2)(X), y) and its
\* predict: the least-squares line through the series
LinearPredict(fit, t) == LineAt(fit, t)

LrKeys == {"dates", "values", "model", "r2"}

\* the data preparation of forecast_linear_regression: the rows kept, the
\* monthly sums and the series that is fitted (pd.to_datetime raises on an
\* unparseable date, and then there is no series)
LrPrepare(data, var_value) ==
    LET rows == FilterByRegion(data, var_value)
        grouped == IF HasNaT(rows) THEN <<>> ELSE GroupByMonthEnd(rows)
    IN  [rows |-> rows, grouped |-> grouped, series |-> PositiveMonths(grouped)]

ForecastLinearRegressionCall(data, var_value, periods, sklearn_available, fit_raises) ==
    IF ~sklearn_available THEN Ended("unavailable", <<>>)
    ELSE IF ~data.loaded THEN Ended("error", <<>>)
    ELSE LET prep == LrPrepare(data, var_value)
             rows == prep.rows
             ms == prep.series
             n == Len(ms)
         IN  \* pd.to_datetime without errors='coerce' raises on a bad date
             IF HasNaT(rows) THEN Ended("error", <<>>)
             ELSE IF n < LinearMinMonths THEN Ended("insufficient", <<>>)
             ELSE IF fit_raises THEN Ended("error", <<"Linear Regression">>)
             \* poly_features.transform of an empty X_future raises
             ELSE IF periods <= 0 THEN Ended("error", <<"Linear Regression">>)
             ELSE LET fit == LineFit(Values(ms))
                      values == [i \in 1..periods |->
                                    ClampNonNegative(LinearPredict(fit, n + i - 1))]
                      last_date == ms[n].date
                      dates == DateRangeM(DateOffsetMonths(last_date, 1), periods)
                  IN  Stored(ForecastDict(dates, values, "Linear Regression", "", LrKeys),
                             periods, <<"Linear Regression">>)

\* ---------------------------------------------------------------------
\* forecast_sarima
\* ---------------------------------------------------------------------
\* month_values = [monthly_data.iloc[j] for j in range(i, len, 12)]
RECURSIVE EveryTwelfth(_, _)
EveryTwelfth(y, j) ==
    IF j > Len(y) THEN <<>> ELSE <<y[j]>> \o EveryTwelfth(y, j + 12)

\* seasonal_component[i], i in 0..11: mean of the values at positions
\* i, i+12, ... minus the mean of the series (0 where there is no value)
SeasonalComponent(y, i) ==
    LET month_values == EveryTwelfth(y, i + 1)
    IN  IF month_values = <<>> THEN 0
        ELSE MeanInt(Mean(month_values)) - MeanInt(Mean(y))

\* the branch taken when STATSMODELS_AVAILABLE is false
ManualSarimaForecast(ms, periods) ==
    LET y == Values(ms)
        n == Len(ms)
        trend_coef == LineFit(y)
        last_date == ms[n].date
    IN  [dates |-> DateRangeM(DateOffsetMonths(last_date, 1), periods),
         values |-> [k \in 1..periods |->
                        LET i == k - 1
                            trend_value == LineAt(trend_coef, n + i)
                            month_idx == (last_date.month + i) % 12
                        IN  ClampNonNegative(trend_value + SeasonalComponent(y, month_idx))]]

\* stand-in for best_model.forecast(steps=periods) of the ARIMA model the
\* order search retained: the last value continued with the last step
ArimaForecast(y, periods) ==
    LET n == Len(y)
    IN  [k \in 1..periods |-> y[n] + k * (y[n] - y[n - 1])]

\* the ARIMA branch with the first forecast date included in the step count
ArimaBranchOneDateShort(ms, periods) ==
    [dates |-> DateRangeM(DateOffsetMonths(ms[Len(ms)].date, 1), periods - 1),
     values |-> [k \in 1..periods |->
                    ClampNonNegative(ArimaForecast(Values(ms), periods)[k])]]

ArimaBranchForecast(ms, periods) ==
    [dates |-> DateRangeM(DateOffsetMonths(ms[Len(ms)].date, 1), periods),
     values |-> [k \in 1..periods |->
                    ClampNonNegative(ArimaForecast(Values(ms), periods)[k])]]

SarimaKeys == {"dates", "values", "model", "method_details"}

\* range(a, b) as a sequence
PyRange(a, b) == [i \in 1..(b - a) |-> a + i - 1]

\* the stops of the three loops of the order search
ArimaPStop == 3
\* a search that lets d run as far as p and q
ArimaDStopAsPQ == 2 + 1
ArimaDStop == 2
ArimaQStop == 3

\* for p in range(0, 3): for d in range(0, 2): for q in range(0, 3): the
\* orders (p, d, q) in the order the loops reach them.  Each is attempted
\* inside a try of its own, so a candidate that raises does not end the walk.
ArimaOrders ==
    LET P == PyRange(0, ArimaPStop)
        D == PyRange(0, ArimaDStop)
        Q == PyRange(0, ArimaQStop)
        nd == Len(D)
        nq == Len(Q)
    IN  [k \in 1..(Len(P) * nd * nq) |->
            <<P[((k - 1) \div (nd * nq)) + 1],
              D[(((k - 1) \div nq) % nd) + 1],
              Q[((k - 1) % nq) + 1]>>]

\* ARIMA(monthly_data, order=(p, d, q)).fit() on one candidate: it raises,
\* or it returns a fitted model with an AIC
FitRaised == [ok |-> FALSE, aic |-> 0]
Fitted(aic) == [ok |-> TRUE, aic |-> aic]

\* what the library does with each candidate on the table of the session:
\* profile.pat gives the outcome by q, profile.tilt what each unit of p adds
\* to the AIC; d does not change the outcome, so that every profile has
\* candidates of equal AIC
FitOutcome(profile, order) ==
    LET o == profile.pat[order[3] + 1]
    IN  IF o.ok THEN Fitted(o.aic + profile.tilt * order[1]) ELSE FitRaised

\* a comparison that lets a candidate of equal AIC replace the retained one
AicImprovesOrTies(aic, best_aic) == aic <= best_aic

\* fitted_model.aic < best_aic
AicImproves(aic, best_aic) == aic < best_aic

\* the body of the innermost loop for one candidate: a fit that raises is
\* passed over (except: continue); best_aic starts as float('inf'), below
\* which every AIC lies
SearchStep(best, order, outcome) ==
    IF ~outcome.ok THEN best
    ELSE IF ~best.found \/ AicImproves(outcome.aic, best.best_aic)
    THEN [found |-> TRUE, best_aic |-> outcome.aic, best_params |-> order]
    ELSE best

\* the three loops from the k-th candidate on
RECURSIVE ArimaSearchFrom(_, _, _, _)
ArimaSearchFrom(orders, profile, k, best) ==
    IF k > Len(orders) THEN best
    ELSE ArimaSearchFrom(orders, profile, k + 1,
                         SearchStep(best, orders[k], FitOutcome(profile, orders[k])))

ArimaSearch(profile) == ArimaSearchFrom(ArimaOrders, profile, 1, NothingRetained)

\* a result of the branch that ran the order search
WithOrderSearch(result, search) ==
    [result EXCEPT !.orders = ArimaOrders, !.best = search]

\* the data preparation of forecast_sarima: the rows kept, the monthly sums
\* and the series that is fitted
SarimaPrepare(data, var_value) ==
    LET rows == DropNaT(FilterByRegion(data, var_value))
        resampled == ResampleMS(rows)
    IN  [rows |-> rows, resampled |-> resampled, series |-> PositiveMonths(resampled)]

\* one activation of forecast_sarima up to the point where it stores,
\* returns, fails or calls itself again.  arima_raises says whether the
\* ARIMA branch raises on this table outside the candidate fits (in the
\* forecast of the retained model, for one).
\* how = "recurse" is the call at the end of the inner except handler.
\* profile says what each candidate fit does; when none fits, best_model is
\* None and the branch raises ValueError.
ForecastSarimaCall(data, var_value, periods, statsmodels_available, arima_raises, profile) ==
    IF ~data.loaded THEN Ended("error", <<>>)
    ELSE LET prep == SarimaPrepare(data, var_value)
             resampled == prep.resampled
             ms == prep.series
             search == ArimaSearch(profile)
         IN  IF PositiveCount(resampled) < SarimaMinMonths THEN Ended("insufficient", <<>>)
             ELSE IF ~statsmodels_available
             THEN LET f == ManualSarimaForecast(ms, periods)
                  IN  Stored(ForecastDict(f.dates, f.values, "SARIMA", "manual", SarimaKeys),
                             periods, <<"ManualSarima">>)
             \* forecast(steps=periods) raises for periods <= 0
             ELSE IF arima_raises \/ periods <= 0 \/ ~search.found
             THEN WithOrderSearch(Ended("recurse", <<"ARIMA">>), search)
             ELSE LET f == ArimaBranchForecast(ms, periods)
                  IN  WithOrderSearch(
                          Stored(ForecastDict(f.dates, f.values, "SARIMA", "ARIMA", SarimaKeys),
                                 periods, <<"ARIMA">>),
                          search)

\* ---------------------------------------------------------------------
\* State
\* ---------------------------------------------------------------------
VARIABLES
    current_data,           \* self.current_data
    XGBOOST_AVAILABLE,      \* module flags set by the guarded imports
    SKLEARN_AVAILABLE,
    STATSMODELS_AVAILABLE,
    arima_raises,           \* whether the ARIMA branch raises outside the candidate fits
    arima_profile,          \* what each candidate fit of the search does on this table
    calendar,               \* the dates the two feature loops compute from one last month
    model_var,              \* self.model_var (combobox)
    forecast_period,        \* self.forecast_period (spinbox)
    forecast_region_var,    \* self.forecast_region_var (combobox)
    forecast_results,       \* self.forecast_results: <<>> is None, <<d>> a dictionary
    stored_horizon,         \* the horizon read by the call that stored forecast_results
    pc,                     \* the function the request is executing
    depth,                  \* number of active forecast_sarima frames
    req,                    \* the request in progress
    np_random,              \* the global random stream of numpy
    pinned,                 \* a stored forecast remembered for comparison: <<>> or <<p>>
    stack                   \* the requests suspended in root.update(), innermost first

vars == <<current_data, XGBOOST_AVAILABLE, SKLEARN_AVAILABLE, STATSMODELS_AVAILABLE,
          arima_raises, arima_profile, calendar, model_var, forecast_period, forecast_region_var,
          forecast_results, stored_horizon, pc, depth, req, np_random, pinned, stack>>

flags == <<XGBOOST_AVAILABLE, SKLEARN_AVAILABLE, STATSMODELS_AVAILABLE, arima_raises,
           arima_profile, calendar>>

env == <<current_data, flags>>

\* horizons the user can leave in the spinbox: its arrows stay within
\* from_..to, typing is not validated
HorizonChoices == {0, SpinboxFrom, DefaultPeriod, SpinboxTo, SpinboxTo + ExtraHorizon}

RegionChoices == {AllRegions, "Almaty"}

NoRequest ==
    [via |-> "none", model_type |-> "", periods |-> 0, calls |-> <<>>,
     fits |-> <<>>, raised |-> <<>>, how |-> "none", holdout |-> "none",
     orders |-> <<>>, best |-> NothingRetained, overlapped |-> FALSE]

NewRequest(via, model_type, periods, first_call) ==
    [via |-> via, model_type |-> model_type, periods |-> periods,
     calls |-> <<first_call>>, fits |-> <<>>, raised |-> <<>>, how |-> "running",
     holdout |-> "none", orders |-> <<>>, best |-> NothingRetained, overlapped |-> FALSE]

\* a table on which every candidate fits, with the lowest AIC at q = 1
EveryCandidateFits == [pat |-> <<Fitted(3), Fitted(2), Fitted(3)>>, tilt |-> 0]

\* the state after construction, whatever the library does with the table
InitSession ==
    /\ current_data \in {NoData} \cup {DataOf(c) : c \in DataConfigs}
    /\ XGBOOST_AVAILABLE \in BOOLEAN
    /\ SKLEARN_AVAILABLE \in BOOLEAN
    /\ STATSMODELS_AVAILABLE \in BOOLEAN
    /\ arima_raises \in BOOLEAN
    /\ arima_raises => STATSMODELS_AVAILABLE
    /\ model_var = "SARIMA"
    /\ forecast_period = DefaultPeriod
    /\ forecast_region_var = AllRegions
    /\ forecast_results = <<>>
    /\ stored_horizon = 0
    /\ pc = "idle"
    /\ depth = 0
    /\ req = NoRequest
    /\ np_random = NumpyGlobalState
    /\ pinned = <<>>
    /\ stack = <<>>

\* no feature loop has run
NoCalendar == [last_year |-> 0, last_month |-> 0, i |-> 0, xgb |-> <<>>, ml |-> <<>>]

Init ==
    /\ InitSession
    /\ arima_profile = EveryCandidateFits
    /\ calendar = NoCalendar

\* ---------------------------------------------------------------------
\* The user edits the widgets of the forecast tab
\* ---------------------------------------------------------------------
\* events are dispatched by the main loop and by the self.root.update() call
\* of build_forecast
Dispatching == pc \in {"idle", "update"}

SelectModel(m) ==
    /\ Dispatching
    /\ m # model_var
    /\ model_var' = m
    /\ UNCHANGED <<env, forecast_period, forecast_region_var, forecast_results,
                   stored_horizon, pc, depth, req, np_random, pinned, stack>>

SetForecastPeriod(h) ==
    /\ Dispatching
    /\ h # forecast_period
    /\ forecast_period' = h
    /\ UNCHANGED <<env, model_var, forecast_region_var, forecast_results,
                   stored_horizon, pc, depth, req, np_random, pinned, stack>>

SelectRegion(r) ==
    /\ Dispatching
    /\ r # forecast_region_var
    /\ current_data.has_region
    /\ forecast_region_var' = r
    /\ UNCHANGED <<env, model_var, forecast_period, forecast_results,
                   stored_horizon, pc, depth, req, np_random, pinned, stack>>

\* ---------------------------------------------------------------------
\* build_forecast
\* ---------------------------------------------------------------------
BackendOf(model_type) ==
    IF model_type = "XGBoost" THEN "forecast_xgboost"
    ELSE IF model_type = "Random Forest" THEN "forecast_ml"
    ELSE IF model_type = "Linear Regression" THEN "forecast_linear_regression"
    ELSE "forecast_sarima"

\* globals().get(flag, False) of the library the selected model needs
Available(model_type) ==
    IF model_type = "XGBoost" THEN XGBOOST_AVAILABLE
    ELSE IF model_type \in {"Random Forest", "Linear Regression"} THEN SKLEARN_AVAILABLE
    ELSE TRUE

\* build_forecast up to the call of a backend: the guard on current_data,
\* the reads of the widgets, the availability test and the switch to SARIMA.
\* Its `except Exception` handler (which sets model_var to SARIMA and calls
\* forecast_sarima) has no transition here: every backend encloses its whole
\* body in a try/except of its own that reports the error and returns, so
\* no exception of a backend reaches build_forecast, and forecast_period
\* ranges over integers, for which the reads of the widgets do not raise.
BuildForecast ==
    /\ pc = "idle"
    /\ IF ~current_data.loaded
       THEN /\ pc' = "return"
            /\ req' = [NoRequest EXCEPT !.via = "build_forecast", !.how = "no_data"]
            /\ UNCHANGED <<model_var, depth>>
       ELSE LET model_type == model_var
                periods == forecast_period
                target == IF Available(model_type) THEN BackendOf(model_type)
                          ELSE "forecast_sarima"
            IN  /\ model_var' = IF Available(model_type) THEN model_var ELSE "SARIMA"
                /\ pc' = target
                /\ depth' = IF target = "forecast_sarima" THEN 1 ELSE 0
                /\ req' = NewRequest("build_forecast", model_type, periods, target)
    /\ UNCHANGED <<env, forecast_period, forecast_region_var, forecast_results,
                   stored_horizon, np_random, pinned, stack>>

\* an entry of the forecast menu calls a backend directly; the entries of
\* the sklearn and xgboost backends exist only when the library was imported
MenuForecast(m) ==
    /\ pc = "idle"
    /\ Available(m)
    /\ pc' = BackendOf(m)
    /\ depth' = IF m = "SARIMA" THEN 1 ELSE 0
    /\ req' = NewRequest("menu", m, forecast_period, BackendOf(m))
    /\ UNCHANGED <<env, model_var, forecast_period, forecast_region_var,
                   forecast_results, stored_horizon, np_random, pinned, stack>>

\* the attribute updated in place (dict.update): the keys of the dictionary
\* it held stay, those of the new one are added or overwritten
UpdateResults(old, new) ==
    IF old = <<>> THEN new ELSE <<[new[1] EXCEPT !.keys = @ \cup old[1].keys]>>

\* self.forecast_results = {...}: the attribute is bound to the new
\* dictionary, whatever it held
AssignResults(old, new) == new

\* the effect of a finished backend call on the application state
Finish(result) ==
    \E r \in {result} :
        /\ forecast_results' = IF r.how = "stored"
                               THEN AssignResults(forecast_results, r.stored)
                               ELSE forecast_results
        /\ stored_horizon' = IF r.how = "stored" THEN r.horizon ELSE stored_horizon
        /\ req' = [req EXCEPT !.fits = @ \o r.fits,
                              !.raised = IF r.how = "error" THEN @ \o r.fits ELSE @,
                              !.how = r.how,
                              !.holdout = r.holdout,
                              !.orders = r.orders,
                              !.best = r.best]
        /\ pc' = "return"

ForecastXgboost ==
    /\ pc = "forecast_xgboost"
    /\ \E fit_raises \in BOOLEAN, metrics_raise \in BOOLEAN :
          \E r \in {ForecastXgboostCall(current_data, forecast_region_var, forecast_period,
                                        XGBOOST_AVAILABLE, fit_raises, metrics_raise,
                                        np_random)} :
             /\ Finish(r)
             /\ np_random' = IF r.fits # <<>>
                             THEN GlobalAfterFit(np_random, RandomState(RandomSeed, np_random))
                             ELSE np_random
    /\ current_data' = IF XGBOOST_AVAILABLE
                       THEN TableAfterBackend(current_data, forecast_region_var, TRUE)
                       ELSE current_data
    /\ UNCHANGED <<flags, model_var, forecast_period, forecast_region_var, depth, pinned,
                   stack>>

ForecastMl ==
    /\ pc = "forecast_ml"
    /\ \E fit_raises \in BOOLEAN, metrics_raise \in BOOLEAN :
          \E r \in {ForecastMlCall(current_data, forecast_period, SKLEARN_AVAILABLE,
                                   fit_raises, metrics_raise, np_random)} :
             /\ Finish(r)
             /\ np_random' = IF r.fits # <<>>
                             THEN GlobalAfterFit(np_random, RandomState(RandomSeed, np_random))
                             ELSE np_random
    /\ current_data' = IF SKLEARN_AVAILABLE
                       THEN TableAfterBackend(current_data, forecast_region_var, FALSE)
                       ELSE current_data
    /\ UNCHANGED <<flags, model_var, forecast_period, forecast_region_var, depth, pinned,
                   stack>>

ForecastLinearRegression ==
    /\ pc = "forecast_linear_regression"
    /\ \E fit_raises \in BOOLEAN :
          Finish(ForecastLinearRegressionCall(current_data, forecast_region_var,
                                              forecast_period, SKLEARN_AVAILABLE, fit_raises))
    /\ current_data' = IF SKLEARN_AVAILABLE
                       THEN TableAfterBackend(current_data, forecast_region_var, TRUE)
                       ELSE current_data
    /\ UNCHANGED <<flags, model_var, forecast_period, forecast_region_var, depth, np_random,
                   pinned, stack>>

\* one activation of forecast_sarima.  When the ARIMA branch raises, the
\* inner handler calls forecast_sarima again with every input unchanged
\* (STATSMODELS_AVAILABLE is not cleared); the call that would exceed the
\* recursion limit raises RecursionError, which the outer handlers of the
\* active frames swallow, and the outermost call returns normally.
ForecastSarima ==
    /\ pc = "forecast_sarima"
    /\ LET r == ForecastSarimaCall(current_data, forecast_region_var, forecast_period,
                                   STATSMODELS_AVAILABLE, arima_raises, arima_profile)
       IN  IF r.how = "recurse" /\ depth < RecursionLimit
           THEN /\ depth' = depth + 1
                /\ req' = [req EXCEPT !.calls = Append(@, "forecast_sarima"),
                                      !.fits = @ \o r.fits,
                                      !.raised = @ \o r.fits,
                                      !.orders = r.orders,
                                      !.best = r.best]
                /\ UNCHANGED <<forecast_results, stored_horizon, pc>>
           ELSE /\ Finish(IF r.how = "recurse"
                          THEN WithOrderSearch(Ended("error", r.fits), r.best) ELSE r)
                /\ UNCHANGED depth
    /\ current_data' = TableAfterBackend(current_data, forecast_region_var, TRUE)
    /\ UNCHANGED <<flags, model_var, forecast_period, forecast_region_var, np_random,
                   pinned, stack>>

\* the stored forecast answers the same request as the remembered one: same
\* backend, same horizon, same region selection (the table never changes)
SameRequestAsPinned ==
    /\ pinned # <<>>
    /\ Len(forecast_results) = 1
    /\ forecast_results[1].model = pinned[1].model
    /\ stored_horizon = pinned[1].horizon
    /\ forecast_region_var = pinned[1].region

\* the request is over: control is back in the event loop.  A remembered
\* forecast notes that another request stored a forecast after it.
Return ==
    /\ pc = "return"
    /\ depth' = 0
    /\ IF stack = <<>>
       THEN /\ pc' = "idle"
            /\ req' = NoRequest
            /\ UNCHANGED stack
       ELSE \* a request entered from root.update() returns into the update
            \* call of the request that was suspended there
            /\ pc' = "update"
            /\ req' = [Head(stack) EXCEPT !.overlapped = TRUE]
            /\ stack' = Tail(stack)
    /\ pinned' = IF pinned # <<>> /\ req.how = "stored" /\ ~SameRequestAsPinned
                 THEN <<[pinned[1] EXCEPT !.between = TRUE]>>
                 ELSE pinned
    /\ UNCHANGED <<env, model_var, forecast_period, forecast_region_var,
                   forecast_results, stored_horizon, np_random>>

Next ==
    \/ \E m \in Models : SelectModel(m)
    \/ \E h \in HorizonChoices : SetForecastPeriod(h)
    \/ \E r \in RegionChoices : SelectRegion(r)
    \/ BuildForecast
    \/ \E m \in Models : MenuForecast(m)
    \/ ForecastXgboost
    \/ ForecastMl
    \/ ForecastLinearRegression
    \/ ForecastSarima
    \/ Return

Spec == Init /\ [][Next]_vars

\* ---------------------------------------------------------------------
\* Repeated requests: one stored forecast of a session is remembered, to be
\* compared with what a later identical request stores
\* ---------------------------------------------------------------------
\* the backends whose estimator is seeded or has no randomness
DeterministicModels == {"Linear Regression", "Random Forest", "XGBoost"}

\* remember the forecast a request has just stored
Pin ==
    /\ pc = "return"
    /\ req.how = "stored"
    /\ pinned = <<>>
    /\ forecast_results[1].model \in DeterministicModels
    /\ pinned' = <<[model |-> forecast_results[1].model,
                    horizon |-> stored_horizon,
                    region |-> forecast_region_var,
                    dates |-> forecast_results[1].dates,
                    values |-> forecast_results[1].values,
                    between |-> FALSE]>>
    /\ UNCHANGED <<env, model_var, forecast_period, forecast_region_var, forecast_results,
                   stored_horizon, pc, depth, req, np_random, stack>>

\* sessions over a table with enough history for every backend, with and
\* without a region column, every library imported
InitRepeat ==
    /\ Init
    /\ current_data \in {DataOf(Cfg(LongHistory, 2022, 12, FALSE, 0, 0, 0, FALSE)),
                         DataOf(Cfg(LongHistory, 2022, 12, FALSE, 0, 0, 0, TRUE))}
    /\ XGBOOST_AVAILABLE /\ SKLEARN_AVAILABLE /\ STATSMODELS_AVAILABLE
    /\ ~arima_raises

NextRepeat == Next \/ Pin

SpecRepeat == InitRepeat /\ [][NextRepeat]_vars

\* ---------------------------------------------------------------------
\* Requests that overlap: self.root.update() inside build_forecast
\* dispatches the pending events, among them edits of the widgets and
\* another click on the forecast button
\* ---------------------------------------------------------------------
\* build_forecast from its entry to the call of self.root.update(): it has
\* read model_var and forecast_period and cleared the plot frame.  Entered
\* from the main loop, or from the update call of a request in progress,
\* which is then suspended.
BuildForecastEnter ==
    /\ \/ pc = "idle"
       \/ pc = "update" /\ Len(stack) < MaxNesting
    /\ current_data.loaded
    /\ stack' = IF pc = "update" THEN <<req>> \o stack ELSE stack
    /\ req' = [NewRequest("build_forecast", model_var, forecast_period, "") EXCEPT
                  !.calls = <<>>]
    /\ pc' = "update"
    /\ UNCHANGED <<env, model_var, forecast_period, forecast_region_var, forecast_results,
                   stored_horizon, depth, np_random, pinned>>

\* self.root.update() returns: build_forecast tests the availability of the
\* model it read at entry and calls the backend
UpdateReturns ==
    /\ pc = "update"
    /\ LET model_type == req.model_type
           target == IF Available(model_type) THEN BackendOf(model_type)
                     ELSE "forecast_sarima"
       IN  /\ model_var' = IF Available(model_type) THEN model_var ELSE "SARIMA"
           /\ pc' = target
           /\ depth' = IF target = "forecast_sarima" THEN 1 ELSE 0
           /\ req' = [req EXCEPT !.calls = <<target>>]
    /\ UNCHANGED <<env, forecast_period, forecast_region_var, forecast_results,
                   stored_horizon, np_random, pinned, stack>>

NextReentrant == Next \/ BuildForecastEnter \/ UpdateReturns

\* a session over the table with a region column and enough history for
\* every backend, every library imported
InitReentrant ==
    /\ InitRepeat
    /\ current_data.has_region

SpecReentrant == InitReentrant /\ [][NextReentrant]_vars

\* ---------------------------------------------------------------------
\* Sessions that differ in what the ARIMA fits do
\* ---------------------------------------------------------------------
\* each candidate raises or fits; candidates of equal AIC always exist, and
\* the lowest AIC is met early (tilt 1), late (tilt -1) or at every p (0)
SearchProfiles ==
    [pat : [1..3 -> {FitRaised} \cup {Fitted(a) : a \in 1..MaxAic}], tilt : {-1, 0, 1}]

\* sessions over a table with enough history for the search to run, with
\* statsmodels alone imported and any profile; and the session over the
\* table with a region column with every library imported
InitSearch ==
    /\ InitSession
    /\ STATSMODELS_AVAILABLE
    /\ ~arima_raises
    /\ calendar = NoCalendar
    /\ \/ /\ current_data = DataOf(Cfg(LongHistory, 2022, 12, FALSE, 0, 0, 0, FALSE))
          /\ ~XGBOOST_AVAILABLE /\ ~SKLEARN_AVAILABLE
          /\ arima_profile \in SearchProfiles
       \/ /\ current_data = DataOf(Cfg(LongHistory, 2022, 12, FALSE, 0, 0, 0, TRUE))
          /\ XGBOOST_AVAILABLE /\ SKLEARN_AVAILABLE
          /\ arima_profile = EveryCandidateFits

SpecSearch == InitSearch /\ [][Next]_vars

\* ---------------------------------------------------------------------
\* The calendar of the two feature loops, run side by side from the same
\* last month of history
\* ---------------------------------------------------------------------
\* the last months of history: every month of the year the tables start in
\* and of the years after it
LastMonths ==
    {[last_year |-> y, last_month |-> m] : y \in 2022..(2022 + ExtraYears), m \in 1..12}

\* the loops are about to start: last_period, last_year and last_month were
\* read from the last row of the monthly frame
InitCalendar ==
    /\ InitSession
    /\ current_data = NoData
    /\ XGBOOST_AVAILABLE /\ SKLEARN_AVAILABLE /\ STATSMODELS_AVAILABLE
    /\ ~arima_raises
    /\ arima_profile = EveryCandidateFits
    /\ \E l \in LastMonths :
          calendar = [last_year |-> l.last_year, last_month |-> l.last_month, i |-> 0,
                      xgb |-> <<>>, ml |-> <<>>]

\* one pass of `for i in range(periods)` in both loops, up to the largest
\* horizon of the spinbox: forecast_xgboost decodes new_period, forecast_ml
\* adds the months and rolls the year over
CalendarStep ==
    /\ calendar.i < SpinboxTo
    /\ LET i == calendar.i
           last_period == calendar.last_year * 12 + calendar.last_month
           new_period == last_period + i + 1
           months_to_add == i + 1
       IN  calendar' = [calendar EXCEPT
                           !.i = i + 1,
                           !.xgb = <<DecodePeriod(new_period)>>,
                           !.ml = <<RollOver(calendar.last_year,
                                             calendar.last_month + months_to_add)>>]
    /\ UNCHANGED <<current_data, XGBOOST_AVAILABLE, SKLEARN_AVAILABLE, STATSMODELS_AVAILABLE,
                   arima_raises, arima_profile, model_var, forecast_period,
                   forecast_region_var, forecast_results, stored_horizon, pc, depth, req,
                   np_random, pinned, stack>>

NextCalendar == CalendarStep

SpecCalendar == InitCalendar /\ [][NextCalendar]_vars

TypeOK ==
    /\ pc \in {"idle", "update", "forecast_sarima", "forecast_xgboost", "forecast_ml",
               "forecast_linear_regression", "return"}
    /\ Len(stack) <= MaxNesting
    /\ model_var \in Models
    /\ forecast_period \in HorizonChoices
    /\ Len(forecast_results) <= 1
    /\ depth \in 0..RecursionLimit

\* ---------------------------------------------------------------------
\* Properties
\* ---------------------------------------------------------------------
HasForecast == Len(forecast_results) = 1
Result == forecast_results[1]
Range(seq) == {seq[i] : i \in DOMAIN seq}
RequestOver == pc = "return"
LastCall == req.calls[Len(req.calls)]

\* C1: a stored forecast whose requested horizon H is in 1..24 has exactly H
\* dates and exactly H values.
C1_LengthsEqualHorizon ==
    (HasForecast /\ stored_horizon \in 1..24)
        => /\ Len(Result.dates) = stored_horizon
           /\ Len(Result.values) = stored_horizon

C1_Witness ==
    /\ HasForecast
    /\ Result.model = "SARIMA"
    /\ Result.method_details = "ARIMA"
    /\ stored_horizon = 24
    /\ Len(Result.values) = 24

\* C2: every value of every stored forecast is >= 0, whatever the backend
\* and the horizon.
C2_ValuesNonNegative ==
    HasForecast => \A i \in DOMAIN Result.values : Result.values[i] >= 0

\* a stored linear-regression forecast over a falling series: the line is
\* below zero at the end of the horizon and the stored value is 0
C2_Witness ==
    /\ HasForecast
    /\ Result.model = "Linear Regression"
    /\ stored_horizon = 24
    /\ Result.values[24] = 0
    /\ LET y == Values(PositiveMonths(GroupByMonthEnd(current_data.rows)))
       IN  LinearPredict(LineFit(y), Len(y) + 23) < 0

\* the rows a backend aggregates: forecast_ml takes every row with a valid
\* date, the others filter by region first
HistoryRows(model) ==
    IF model = "Random Forest" THEN DropNaT(current_data.rows)
    ELSE DropNaT(FilterByRegion(current_data, forecast_region_var))

\* C3: the first forecast period is the calendar month right after the last
\* month of the monthly series aggregated from the (filtered) event rows.
C3_FirstPeriodFollowsHistory ==
    (HasForecast /\ Len(Result.dates) >= 1)
        => LET periods == PeriodsOf(HistoryRows(Result.model))
           IN  Period(Result.dates[1]) = MaxOf(periods) + 1

\* C4: for H <= 24, forecast period i+1 is one calendar month after period
\* i, December being followed by January of the next year; months stay in
\* 1..12.
C4_ConsecutiveMonths ==
    (HasForecast /\ stored_horizon <= 24)
        => /\ \A i \in DOMAIN Result.dates : Result.dates[i].month \in 1..12
           /\ \A i \in 1..(Len(Result.dates) - 1) :
                LET a == Result.dates[i]
                    b == Result.dates[i + 1]
                IN  IF a.month = 12
                    THEN b.month = 1 /\ b.year = a.year + 1
                    ELSE b.month = a.month + 1 /\ b.year = a.year

\* a stored 24-month XGBoost forecast, which crosses two year ends
C4_Witness ==
    /\ HasForecast
    /\ Result.model = "XGBoost"
    /\ stored_horizon = 24
    /\ Cardinality({i \in DOMAIN Result.dates : Result.dates[i].month = 12}) = 2

AllBackends ==
    {"forecast_sarima", "forecast_xgboost", "forecast_ml", "forecast_linear_regression"}

\* C5: when the selected backend is unavailable or raises in fit/predict,
\* build_forecast catches the failure and advances through a fixed order of
\* backends whose last element is the linear trend: a request in which a
\* backend raised ends either with a stored forecast or after the linear
\* backend was called.
C5_FailureAdvancesToNextBackend ==
    (RequestOver /\ req.via = "build_forecast" /\ req.raised # <<>>)
        => \/ req.how = "stored"
           \/ LastCall = "forecast_linear_regression"

\* C6: a request ends without a forecast for a backend failure only after
\* every backend of the fallback order was attempted.
C6_FailsOnlyWhenExhausted ==
    (RequestOver /\ req.via = "build_forecast" /\ req.how = "error" /\ req.raised # <<>>)
        => AllBackends \subseteq Range(req.calls)

\* C7: when the ARIMA search or forecast raises, or statsmodels is missing,
\* the request still stores a forecast of the requested horizon, marked as
\* not coming from ARIMA.
C7_ArimaFailureStillDelivers ==
    (/\ RequestOver
     /\ req.via = "build_forecast"
     /\ req.calls # <<>>
     /\ LastCall = "forecast_sarima"
     /\ req.periods \in 1..24
     /\ PositiveCount(ResampleMS(HistoryRows("SARIMA"))) >= 24
     /\ (arima_raises \/ ~STATSMODELS_AVAILABLE))
        => /\ req.how = "stored"
           /\ HasForecast
           /\ Len(Result.values) = req.periods
           /\ Result.method_details # "ARIMA"

\* C8: within one request no backend is fitted more than once.
C8_NoBackendFittedTwice ==
    req.via = "build_forecast"
        => \A i, j \in DOMAIN req.fits : i # j => req.fits[i] # req.fits[j]

\* the number of months of the monthly series the called backend builds
SeriesMonths(backend) ==
    IF backend = "forecast_ml" THEN Len(GroupByYearMonth(DropNaT(current_data.rows)))
    ELSE IF backend = "forecast_linear_regression"
    THEN Len(GroupByMonthEnd(FilterByRegion(current_data, forecast_region_var)))
    ELSE Len(ResampleMS(DropNaT(FilterByRegion(current_data, forecast_region_var))))

\* the series is built: the table is loaded and, for the linear backend
\* (which parses dates without coercion), every date parses
SeriesBuilt(backend) ==
    /\ current_data.loaded
    /\ backend = "forecast_linear_regression"
          => ~HasNaT(FilterByRegion(current_data, forecast_region_var))

Rejected ==
    /\ req.how \in {"insufficient", "no_rows"}
    /\ req.fits = <<>>

\* C9 as stated: a series shorter than 12 months (linear, Random Forest,
\* XGBoost) or 24 months (SARIMA) is rejected and nothing is fitted.
C9_Original ==
    (RequestOver /\ req.calls # <<>> /\ SeriesBuilt(LastCall))
        => LET minimum == IF LastCall = "forecast_sarima" THEN 24 ELSE 12
           IN  SeriesMonths(LastCall) < minimum => Rejected

\* C9 amended: the minimum of the linear backend is 6 months; the others
\* are 12 (Random Forest, XGBoost) and 24 (SARIMA).  A series shorter than
\* the minimum of the called backend is rejected and nothing is fitted.
C9_MinimumHistory ==
    (RequestOver /\ req.calls # <<>> /\ SeriesBuilt(LastCall))
        => LET minimum == IF LastCall = "forecast_sarima" THEN 24
                          ELSE IF LastCall = "forecast_linear_regression" THEN 6
                          ELSE 12
           IN  SeriesMonths(LastCall) < minimum => Rejected

\* a request to the XGBoost backend over a series of exactly its minimum
\* minus one month (11), rejected before any fit
C9_Witness ==
    /\ RequestOver
    /\ req.calls # <<>>
    /\ LastCall = "forecast_xgboost"
    /\ SeriesBuilt(LastCall)
    /\ SeriesMonths(LastCall) = 11
    /\ Rejected

\* C10: a request with a horizon outside 1..24 is rejected before any
\* aggregation or fit and stores nothing.
C10_BadHorizonRejected ==
    (RequestOver /\ req.via = "build_forecast" /\ req.how # "no_data"
     /\ req.periods \notin 1..24)
        => /\ req.fits = <<>>
           /\ req.how # "stored"

\* the preparation the backend of the finished request has run
SplitOf(backend) ==
    IF backend = "forecast_xgboost" THEN XgbPrepare(current_data, forecast_region_var)
    ELSE MlPrepare(current_data)

StoredBy(backend) ==
    /\ RequestOver
    /\ req.how = "stored"
    /\ req.calls # <<>>
    /\ LastCall = backend

\* C11: in every backend that computes hold-out metrics the split is
\* chronological: the training rows followed by the test rows are the feature
\* rows in their order, and every training row is earlier than every test row.
C11_ChronologicalSplit ==
    \A b \in {"forecast_xgboost", "forecast_ml"} :
        StoredBy(b) =>
            LET s == SplitOf(b)
            IN  /\ s.train \o s.test = s.features
                /\ \A i \in DOMAIN s.train : \A j \in DOMAIN s.test :
                      s.train[i].period < s.test[j].period

\* a stored Random Forest forecast fitted on 20 rows and evaluated on the
\* last 3 of the 23 feature rows
C11_Witness ==
    /\ StoredBy("forecast_ml")
    /\ Len(SplitOf("forecast_ml").test) = 3
    /\ Len(SplitOf("forecast_ml").train) = 20

\* C12: the hold-out metrics are advisory: a request whose evaluation on the
\* test rows raised still ends with the forecast of the requested horizon
\* stored.
C12_MetricsNeverBlock ==
    (RequestOver /\ req.holdout = "raised")
        => /\ req.how = "stored"
           /\ HasForecast
           /\ Len(Result.values) = req.periods

\* the counts a finished backend call fitted its model on
FitTargets(backend) ==
    IF backend = "forecast_sarima"
    THEN Values(SarimaPrepare(current_data, forecast_region_var).series)
    ELSE IF backend = "forecast_linear_regression"
    THEN Values(LrPrepare(current_data, forecast_region_var).series)
    ELSE Targets(SplitOf(backend).train)

\* C13 as stated: every month used to fit any of the four backends has a
\* strictly positive count.
C13_Original ==
    \A b \in AllBackends :
        StoredBy(b) => LET y == FitTargets(b) IN \A k \in DOMAIN y : y[k] > 0

\* C13 amended: forecast_sarima and forecast_linear_regression remove the
\* zero-count months before fitting, so every month they fit on has a
\* strictly positive count.
C13_ZeroMonthsRemoved ==
    \A b \in {"forecast_sarima", "forecast_linear_regression"} :
        StoredBy(b) => LET y == FitTargets(b) IN \A k \in DOMAIN y : y[k] > 0

\* a stored SARIMA forecast over a table whose monthly sums include a zero
C13_Witness ==
    /\ StoredBy("forecast_sarima")
    /\ LET prep == SarimaPrepare(current_data, forecast_region_var)
       IN  /\ \E k \in DOMAIN prep.resampled : prep.resampled[k].value = 0
           /\ Len(prep.series) < Len(prep.resampled)

\* the monthly series on which a finished backend call built its features
\* and fitted its model
SeriesOf(backend) ==
    IF backend = "forecast_sarima"
    THEN SarimaPrepare(current_data, forecast_region_var).series
    ELSE IF backend = "forecast_linear_regression"
    THEN LrPrepare(current_data, forecast_region_var).series
    ELSE SplitOf(backend).series

\* C14: the monthly series that enters feature construction and fitting has
\* no gaps: every two consecutive entries are exactly one calendar month
\* apart.
C14_NoGaps ==
    \A b \in AllBackends :
        StoredBy(b) =>
            LET ms == SeriesOf(b)
            IN  \A k \in 1..(Len(ms) - 1) :
                   Period(ms[k + 1].date) = Period(ms[k].date) + 1

\* the rows a finished backend call aggregated
RowsOf(backend) ==
    IF backend = "forecast_sarima"
    THEN SarimaPrepare(current_data, forecast_region_var).rows
    ELSE IF backend = "forecast_linear_regression"
    THEN LrPrepare(current_data, forecast_region_var).rows
    ELSE SplitOf(backend).rows

\* the rows of the table whose region is the one selected in the forecast
\* tab: every row when the selection is the 'all' entry or the table has no
\* region column
RowsOfSelectedRegion ==
    LET Selected(r) == r.region = forecast_region_var
    IN  IF forecast_region_var = AllRegions \/ ~current_data.has_region
        THEN current_data.rows
        ELSE SelectSeq(current_data.rows, Selected)

\* the backend of the finished request has read and filtered the table
Aggregated ==
    /\ RequestOver
    /\ req.calls # <<>>
    /\ current_data.loaded
    /\ req.how # "unavailable"

\* C15: every backend aggregates exactly the rows whose region equals the
\* selected region (all rows for the 'all' entry).
C15_ExactRegionMatch ==
    Aggregated => DropNaT(RowsOf(LastCall)) = DropNaT(RowsOfSelectedRegion)

\* C16: a row whose date cannot be parsed is dropped and the forecast goes
\* on with the other rows: a request over a table with such a row does not
\* end in an error unless the model itself raised.
C16_BadDateDropped ==
    (/\ Aggregated
     /\ HasNaT(current_data.rows)
     /\ DropNaT(current_data.rows) # <<>>
     /\ req.raised = <<>>)
        => req.how # "error"

\* C19: no forecast operation mutates the loaded event table: no step of a
\* forecast request, successful or failed, changes current_data.
C19_TableNeverMutated == [][current_data' = current_data]_vars

\* a Random Forest forecast was stored over a table with an unparseable
\* date (the backend assigned the coerced dates and dropped the row in its
\* own frame), and the table still has the text dates and every row
C19_Witness ==
    /\ StoredBy("forecast_ml")
    /\ HasNaT(current_data.rows)
    /\ Len(MlPrepare(current_data).rows) < Len(current_data.rows)
    /\ current_data.date_dtype = "object"

\* (p, d, q) comes before (p2, d2, q2) in ascending enumeration order
OrderBefore(a, b) ==
    \/ a[1] < b[1]
    \/ a[1] = b[1] /\ a[2] < b[2]
    \/ a[1] = b[1] /\ a[2] = b[2] /\ a[3] < b[3]

\* the request ran the ARIMA order search
SearchRan == RequestOver /\ req.orders # <<>>

Ascending(orders) ==
    \A i, j \in DOMAIN orders : i < j => OrderBefore(orders[i], orders[j])

\* C20 as stated: the search attempts every (p, d, q) with p, d and q in
\* {0, 1, 2}, all 27 orders, in ascending enumeration order.
C20_Original ==
    SearchRan => /\ Range(req.orders) = (0..2) \X (0..2) \X (0..2)
                 /\ Len(req.orders) = 27
                 /\ Ascending(req.orders)

\* C20 amended: the search attempts every (p, d, q) with p and q in
\* {0, 1, 2} and d in {0, 1}, 18 orders, each once, in ascending
\* enumeration order.
C20_OrdersAttempted ==
    SearchRan => /\ Range(req.orders) = (0..2) \X (0..1) \X (0..2)
                 /\ Len(req.orders) = 18
                 /\ Ascending(req.orders)

\* a request whose search ran and whose forecast came from the retained
\* ARIMA model
C20_Witness ==
    /\ SearchRan
    /\ req.how = "stored"
    /\ HasForecast
    /\ Result.method_details = "ARIMA"
    /\ req.orders[1] = <<0, 0, 0>>
    /\ req.orders[Len(req.orders)] = <<2, 1, 2>>

\* C17: two requests with the same table, region selection, backend and
\* horizon, to a deterministic backend, store the same dates and values,
\* whatever was requested in between: a forecast stored for the request of
\* the remembered one equals the remembered one.
C17_RepeatedRequestSameForecast ==
    (RequestOver /\ req.how = "stored" /\ SameRequestAsPinned)
        => /\ Result.dates = pinned[1].dates
           /\ Result.values = pinned[1].values

\* an XGBoost forecast was remembered, another request stored a different
\* forecast, and the first request was then repeated and stored again
C17_Witness ==
    /\ RequestOver
    /\ req.how = "stored"
    /\ SameRequestAsPinned
    /\ pinned[1].between
    /\ pinned[1].model = "XGBoost"
    /\ pinned[1].horizon = 24

\* C18: requests that overlap share no mutable state: a build_forecast
\* request during whose root.update() another build_forecast request ran
\* stores the forecast of its own horizon, the one it read when it was
\* entered (horizons within the range of the spinbox).
C18_OverlappingRequestsIndependent ==
    (/\ RequestOver
     /\ req.via = "build_forecast"
     /\ req.how = "stored"
     /\ req.overlapped
     /\ req.periods \in SpinboxFrom..SpinboxTo
     /\ stored_horizon \in SpinboxFrom..SpinboxTo)
        => stored_horizon = req.periods

\* the place of an order in the walk of the search
Position(orders, order) == CHOOSE k \in DOMAIN orders : orders[k] = order

\* C21: the order retained by the ARIMA search is the first candidate, in
\* enumeration order, among the fitted candidates of minimal AIC: its AIC is
\* <= that of every fitted candidate, every fitted candidate before it has a
\* strictly higher AIC, and candidates that raise are passed over (an order
\* is retained whenever some candidate fits).
C21_FirstMinimalAicRetained ==
    SearchRan =>
        LET fit(k) == FitOutcome(arima_profile, req.orders[k])
            fitted == {k \in DOMAIN req.orders : fit(k).ok}
        IN  /\ req.best.found <=> fitted # {}
            /\ req.best.found =>
                  LET c == Position(req.orders, req.best.best_params)
                  IN  /\ c \in fitted
                      /\ req.best.best_aic = fit(c).aic
                      /\ \A k \in fitted : fit(c).aic <= fit(k).aic
                      /\ \A k \in fitted : k < c => fit(k).aic > fit(c).aic

\* a stored ARIMA forecast whose search passed over a candidate that raised,
\* retained an order with p = 2, and met a candidate of the same AIC later
C21_Witness ==
    /\ SearchRan
    /\ req.how = "stored"
    /\ req.best.found
    /\ req.best.best_params[1] = 2
    /\ LET fit(k) == FitOutcome(arima_profile, req.orders[k])
           c == Position(req.orders, req.best.best_params)
       IN  /\ \E k \in 1..(c - 1) : ~fit(k).ok
           /\ \E k \in (c + 1)..Len(req.orders) :
                 fit(k).ok /\ fit(k).aic = req.best.best_aic

\* C22: the hold-out test suffix has max(3, 20-30% of the feature rows)
\* rows: never fewer than 3, and never less than a fifth of the feature rows.
C22_TestSuffixSize ==
    \A b \in {"forecast_xgboost", "forecast_ml"} :
        StoredBy(b) =>
            LET s == SplitOf(b)
            IN  /\ Len(s.test) >= 3
                /\ 5 * Len(s.test) >= Len(s.features)

\* the feature vector the loop of a backend builds for step i (0-based),
\* given the forecasts fv of the steps before it
FutureRow(backend, md, fv, i) ==
    IF backend = "forecast_xgboost" THEN XgbFutureRow(md, SubSeq(fv, 1, i), i)
    ELSE MlFutureRow(md, SubSeq(fv, 1, i), i)

\* the lags a backend uses: 1..3 in forecast_xgboost, 1..2 in forecast_ml
LagsOf(backend) == IF backend = "forecast_xgboost" THEN 1..3 ELSE 1..2

LagOf(row, j) == IF j = 1 THEN row.lag_1 ELSE IF j = 2 THEN row.lag_2 ELSE row.lag_3

\* C23: at every step of the recursive forecast and for every lag j the
\* backend uses, the lag-j feature is the value j positions before the
\* period being predicted in the actual history followed by the forecasts
\* made so far.
C23_LagsFollowCombinedSequence ==
    \A b \in {"forecast_xgboost", "forecast_ml"} :
        StoredBy(b) =>
            LET md == SplitOf(b).features
                fv == Result.values
                combined == Targets(md) \o fv
            IN  \A i \in 0..(Len(fv) - 1) : \A j \in LagsOf(b) :
                   LagOf(FutureRow(b, md, fv, i), j) = combined[Len(md) + i + 1 - j]

\* C24: at every step of the recursive forecast the moving average over 3
\* (and, in forecast_xgboost, over 6) is the mean of the last 3 (6) values of
\* the actual history followed by the forecasts made so far.
C24_MovingAveragesOverCombinedSequence ==
    \A b \in {"forecast_xgboost", "forecast_ml"} :
        StoredBy(b) =>
            LET md == SplitOf(b).features
                fv == Result.values
            IN  \A i \in 0..(Len(fv) - 1) :
                   LET sofar == Targets(md) \o SubSeq(fv, 1, i)
                       row == FutureRow(b, md, fv, i)
                   IN  IF b = "forecast_xgboost"
                       THEN /\ row.ma_3 = Mean(Tail_(sofar, 3))
                            /\ row.ma_6 = Mean(Tail_(sofar, 6))
                       ELSE row.moving_avg = Mean(Tail_(sofar, 3))

\* C25: the features mean the same in training and in forecasting: the
\* feature function of the forecast loop, applied to the history before the
\* last training row, gives the lags and the moving averages that the
\* training frame holds in that row.
C25_SameFeaturesInTrainingAndForecast ==
    \A b \in {"forecast_xgboost", "forecast_ml"} :
        StoredBy(b) =>
            LET md == SplitOf(b).features
                L == Len(md)
                last == md[L]
                row == FutureRow(b, SubSeq(md, 1, L - 1), <<>>, 0)
            IN  /\ \A j \in LagsOf(b) : LagOf(row, j) = LagOf(last, j)
                /\ IF b = "forecast_xgboost"
                   THEN row.ma_3 = last.ma_3 /\ row.ma_6 = last.ma_6
                   ELSE row.moving_avg = last.moving_avg

\* C26: the trend index goes on from training into forecasting: at step 1
\* it is one more than the trend index of the last training row, and it
\* grows by one per step.
C26_TrendIndexContinues ==
    StoredBy("forecast_xgboost") =>
        LET md == SplitOf("forecast_xgboost").features
            fv == Result.values
        IN  \A i \in 0..(Len(fv) - 1) :
               FutureRow("forecast_xgboost", md, fv, i).trend = md[Len(md)].trend + 1 + i

\* the seasonal offset of calendar month m: the mean of the observations of
\* that calendar month minus the mean of the series (0 without observations)
CalendarSeasonal(ms, m) ==
    LET InMonth(e) == e.date.month = m
        month_values == Values(SelectSeq(ms, InMonth))
    IN  IF month_values = <<>> THEN 0
        ELSE MeanInt(Mean(month_values)) - MeanInt(Mean(Values(ms)))

\* a forecast of the manual trend + seasonal branch was stored
StoredManual ==
    /\ StoredBy("forecast_sarima")
    /\ HasForecast
    /\ Result.method_details = "manual"

\* C27: in the manual trend + seasonal mode the seasonal offset added to
\* the forecast of a period in calendar month m is the offset of the
\* historical observations of calendar month m.
C27_SeasonalOffsetOfSameMonth ==
    StoredManual =>
        LET ms == SarimaPrepare(current_data, forecast_region_var).series
            last_date == ms[Len(ms)].date
        IN  \A k \in DOMAIN Result.dates :
               SeasonalComponent(Values(ms), (last_date.month + (k - 1)) % 12)
                   = CalendarSeasonal(ms, Result.dates[k].month)

\* the keys of the dictionary a backend stores
KeysOfModel(model) ==
    IF model = "SARIMA" THEN SarimaKeys
    ELSE IF model = "Linear Regression" THEN LrKeys
    ELSE XgbKeys

\* the 'model' entry a backend writes
LabelOf(backend) ==
    IF backend = "forecast_xgboost" THEN "XGBoost"
    ELSE IF backend = "forecast_ml" THEN "Random Forest"
    ELSE IF backend = "forecast_sarima" THEN "SARIMA"
    ELSE "Linear Regression"

\* the step is the end of a backend call that stored a forecast
StoresForecast == pc # "return" /\ pc' = "return" /\ req'.how = "stored"

\* C28: forecast_results changes only in the step in which a forecast
\* completes, and then holds the new dictionary with the keys of its backend
\* and no others; every other step (a widget edit, a rejected request, a
\* request that failed, a return) leaves it as it was.
C28_ResultsReplacedOnlyOnSuccess ==
    [][IF StoresForecast
       THEN /\ forecast_results' = <<forecast_results'[1]>>
            /\ forecast_results'[1].model = LabelOf(pc)
            /\ forecast_results'[1].keys = KeysOfModel(forecast_results'[1].model)
       ELSE forecast_results' = forecast_results]_vars

\* an XGBoost forecast is stored and a later request to forecast_sarima was
\* rejected for insufficient history: the XGBoost forecast is still there
C28_Witness ==
    /\ RequestOver
    /\ req.calls # <<>>
    /\ LastCall = "forecast_sarima"
    /\ req.how = "insufficient"
    /\ HasForecast
    /\ Result.model = "XGBoost"
    /\ Result.keys = XgbKeys

\* C29: when a build_forecast request has stored a forecast, the 'model'
\* entry of the forecast is the selection of the model combobox as the
\* request ends; and a request that found the library of its model missing
\* ends with 'SARIMA' selected.
C29_LabelIsSelection ==
    (RequestOver /\ req.via = "build_forecast" /\ req.how # "no_data")
        => /\ (req.how = "stored" /\ HasForecast) => Result.model = model_var
           /\ ~Available(req.model_type) => model_var = "SARIMA"

\* C30: from every last month of history and at every step up to 24, the
\* decoding of the period number in forecast_xgboost and the rollover of
\* forecast_ml give the same year and the same month, a month in 1..12.
C30_CalendarsAgree ==
    calendar.i > 0
        => /\ calendar.xgb = calendar.ml
           /\ calendar.xgb[1].month \in 1..12

\* step 24 from a December: both loops have crossed two year ends and the
\* period number is a multiple of 12
C30_Witness ==
    /\ calendar.i = 24
    /\ calendar.last_month = 12
    /\ calendar.xgb = <<[year |-> calendar.last_year + 2, month |-> 12]>>
    /\ calendar.ml = calendar.xgb

====
